---- MODULE Spec2Model ----
(***************************************************************************)
(* Model of src/9.1.test3.py: FixedCameraEmotionAnalyzer and main().       *)
(* One thread of control, a position (pc) in main and a position (ipc) in  *)
(* initialize_camera; the camera, the classifier, the drawing calls, the   *)
(* keyboard and SIGINT are the environment and are chosen with \E.         *)
(***************************************************************************)
EXTENDS Integers, Sequences, FiniteSets, TLC

\* ---------------------------------------------------------------- bounds
\* frames one session may count before the classifier stops reporting faces
MaxFrames == 3
\* largest value the wall clock (time.time()) takes
MaxTime == 1

\* ------------------------------------------------------ program constants
FRAME_WIDTH == 640
FRAME_HEIGHT == 480
FPS == 30

\* dominant-emotion labels the classifier may report
Labels == {"happy", "sad", "neutral"}

\* backends of initialize_camera in list order: CAP_DSHOW, CAP_MSMF, CAP_ANY,
\* CAP_V4L2; candidate Default is the bare cv2.VideoCapture(0) of line 44
backends == <<"CAP_DSHOW", "CAP_MSMF", "CAP_ANY", "CAP_V4L2">>
Default == Len(backends) + 1
Candidates == 1..Default

\* one detection: its dominant emotion and whether it carries a 'region'
Faces == [emotion : Labels, region : BOOLEAN]
\* what DeepFace.analyze may return as a list: no face, one face, two faces
ResultLists == {<<>>} \cup {<<f>> : f \in Faces}
                 \cup {<<f, g>> : f \in Faces, g \in Faces}

VARIABLES
    pc,              \* position in main()
    ipc,             \* position in initialize_camera ("idle": not running)
    icand,           \* candidate initialize_camera is at (0: none)
    icap,            \* initialize_camera's local cap
    failed,          \* candidates of this call that threw or did not open
    firstOpen,       \* first candidate of this call whose handle reported open
    cap,             \* main's cap
    dropped,         \* handles that became unreachable without release()
    emotion_stats,   \* analyzer.emotion_stats (keys present only)
    frame_count,     \* analyzer.frame_count
    start_time,      \* analyzer.start_time
    emotion_history, \* analyzer.emotion_history (the 'emotion' of each entry)
    now,             \* the wall clock as last read
    results,         \* results of DeepFace.analyze for the frame in flight
    ret,             \* second value analyze_frame returned for this frame
    frame,           \* the frame of this iteration
    iter,            \* what this loop iteration did
    lastOp,          \* the step taken last
    seen,            \* first-detection emotion of each frame of this session on
                     \* which the classifier returned detections, as returned
    report,          \* what generate_report returned
    out              \* cleanup and output steps, in the order they happened

vars == <<pc, ipc, icand, icap, failed, firstOpen, cap, dropped, emotion_stats,
          frame_count, start_time, emotion_history, now, results, ret, frame,
          iter, lastOp, seen, report, out>>

camVars == <<ipc, icand, icap, failed, firstOpen>>
sessionVars == <<emotion_stats, frame_count, start_time, emotion_history>>
frameVars == <<results, ret, frame>>

\* ---------------------------------------------------------------- values
None == [valid |-> FALSE, backend |-> 0, opened |-> FALSE, released |-> FALSE,
         width |-> 0, height |-> 0, fps |-> 0]

\* cv2.VideoCapture(0, backend): a fresh handle, open or not
VideoCapture(b, isOpen) ==
    [valid |-> TRUE, backend |-> b, opened |-> isOpen, released |-> FALSE,
     width |-> 0, height |-> 0, fps |-> 0]

\* cap.release()
release(h) == [h EXCEPT !.released = TRUE]

\* cap.set(WIDTH, 640); cap.set(HEIGHT, 480); cap.set(FPS, 30)
configure(h) == [h EXCEPT !.width = FRAME_WIDTH, !.height = FRAME_HEIGHT, !.fps = FPS]

\* a handle nothing refers to any more: kept only if it was never released
Unreleased(h) == IF h.valid /\ ~h.released THEN {[opened |-> h.opened]} ELSE {}

NoFrame == [mirrored |-> FALSE, drawn |-> 0, overlay |-> FALSE]
NoIter == [readFailed |-> FALSE, inits |-> 0, analyzed |-> FALSE, shown |-> FALSE]
NoReport == [text |-> "none", chart |-> FALSE, pct |-> <<>>, total |-> 0,
             divisions |-> 0, charts |-> 0, duration |-> 0]

\* defaultdict(int): a missing key reads as 0
Count(stats, l) == IF l \in DOMAIN stats THEN stats[l] ELSE 0

RECURSIVE SumOver(_, _)
SumOver(f, S) == IF S = {} THEN 0
                 ELSE LET x == CHOOSE y \in S : TRUE
                      IN f[x] + SumOver(f, S \ {x})
Total(f) == SumOver(f, DOMAIN f)

\* number of i with h[i] = l
Occurrences(h, l) == Cardinality({i \in DOMAIN h : h[i] = l})

\* ----------------------------------------------------------- __init__
\* FixedCameraEmotionAnalyzer(): lines 13-16, at clock value t
NewStats == <<>>
NewFrameCount == 0
NewHistory == <<>>
NewStart(t) == t

Init ==
    /\ pc = "init_call"
    /\ ipc = "start"
    /\ icand = 0
    /\ icap = None
    /\ failed = {}
    /\ firstOpen = 0
    /\ cap = None
    /\ dropped = {}
    /\ emotion_stats = NewStats
    /\ frame_count = NewFrameCount
    /\ now \in 0..MaxTime
    /\ start_time = NewStart(now)
    /\ emotion_history = NewHistory
    /\ results = <<>>
    /\ ret = "unset"
    /\ frame = NoFrame
    /\ iter = NoIter
    /\ lastOp = "construct"
    /\ seen = <<>>
    /\ report = NoReport
    /\ out = <<>>

\* ------------------------------------------------- initialize_camera
\* the bug of returning None after the listed backends, without the bare attempt
AfterFail_nodefault(c) == IF c < Len(backends) THEN [ipc |-> "open", icand |-> c + 1]
                          ELSE [ipc |-> "retnone", icand |-> c]

\* where a candidate that threw or did not open leads: the next backend of the
\* for loop (line 28), after the last one the bare attempt (line 43), after
\* that `return None` (line 51)
AfterFail(c) == IF c < Default THEN [ipc |-> "open", icand |-> c + 1]
                ELSE [ipc |-> "retnone", icand |-> c]

\* the bug of a `return` instead of the `break` of line 163
AfterInit_noreport(h) == IF h.valid THEN "read" ELSE "done"

\* the bug of leaving out the `continue` of line 164
AfterInit_nocontinue(h) == IF h.valid THEN "an_call"
                           ELSE IF pc = "init_call" THEN "done" ELSE "fin_release"

\* main's statement after `cap = analyzer.initialize_camera()` returned h:
\* lines 144-152 for the call of line 143, lines 162-164 for that of line 161
AfterInit(h) == IF h.valid THEN "read"
                ELSE IF pc = "init_call" THEN "done" ELSE "fin_release"

\* initialize_camera returns h to main, which stores it in cap; h is None or
\* the object the local cap refers to, and with a None the local's handle
\* becomes unreachable
Return(h) ==
    /\ ipc' = "idle"
    /\ icand' = 0
    /\ icap' = None
    /\ failed' = {}
    /\ firstOpen' = 0
    /\ dropped' = dropped \cup Unreleased(cap)
                          \cup (IF h.valid THEN {} ELSE Unreleased(icap))
    /\ cap' = h
    /\ pc' = AfterInit(h)
    /\ out' = IF ~h.valid /\ pc = "init_call" THEN Append(out, "error") ELSE out

\* lines 21-28: build the list and enter the loop
CamStart ==
    /\ ipc = "start"
    /\ ipc' = "open"
    /\ icand' = 1
    /\ icap' = None
    /\ failed' = {}
    /\ firstOpen' = 0
    /\ lastOp' = "cam_start"
    /\ UNCHANGED <<pc, cap, dropped, sessionVars, now, frameVars, iter, seen, report, out>>

\* line 30 (line 44 for the bare attempt): cv2.VideoCapture throws, or gives
\* a handle that is open or not
CamOpen ==
    /\ ipc = "open"
    /\ \E o \in {"throw", "closed", "open"} :
          IF o = "throw"
          THEN /\ failed' = failed \cup {icand}
               /\ ipc' = AfterFail(icand).ipc
               /\ icand' = AfterFail(icand).icand
               /\ UNCHANGED <<icap, dropped>>
          ELSE /\ icap' = VideoCapture(icand, o = "open")
               /\ dropped' = dropped \cup Unreleased(icap)
               /\ ipc' = "check"
               /\ UNCHANGED <<icand, failed>>
    /\ lastOp' = "cam_open"
    /\ UNCHANGED <<pc, firstOpen, cap, sessionVars, now, frameVars, iter, seen, report, out>>

\* line 31 (line 45): if cap.isOpened()
CamCheck ==
    /\ ipc = "check"
    /\ IF icap.opened
       THEN /\ ipc' = "config"
            /\ firstOpen' = IF firstOpen = 0 THEN icand ELSE firstOpen
            /\ UNCHANGED failed
       ELSE /\ ipc' = IF icand < Default THEN "release" ELSE "retnone"
            /\ failed' = IF icand < Default THEN failed ELSE failed \cup {icand}
            /\ UNCHANGED firstOpen
    /\ lastOp' = "cam_check"
    /\ UNCHANGED <<pc, icand, icap, cap, dropped, sessionVars, now, frameVars, iter,
                   seen, report, out>>

\* what `return cap` hands back for candidate c: lines 32-37 configure a listed
\* backend's handle, lines 46-47 return the bare attempt's handle as it is
Configured(c, h) == IF c < Default THEN configure(h) ELSE h

\* lines 32-37 (lines 46-47): print, configure, return; a step that throws is
\* caught by the bare except (line 39: continue, line 48: pass)
CamConfig ==
    /\ ipc = "config"
    /\ \E ok \in BOOLEAN :
          IF ok
          THEN /\ Return(Configured(icand, icap))
          ELSE /\ failed' = failed \cup {icand}
               /\ ipc' = AfterFail(icand).ipc
               /\ icand' = AfterFail(icand).icand
               /\ UNCHANGED <<pc, icap, firstOpen, cap, dropped, out>>
    /\ lastOp' = "cam_config"
    /\ UNCHANGED <<sessionVars, now, frameVars, iter, seen, report>>

\* line 38: cap.release() of a listed backend's handle that is not open
CamRelease ==
    /\ ipc = "release"
    /\ icap' = release(icap)
    /\ failed' = failed \cup {icand}
    /\ ipc' = AfterFail(icand).ipc
    /\ icand' = AfterFail(icand).icand
    /\ lastOp' = "cam_release"
    /\ UNCHANGED <<pc, firstOpen, cap, dropped, sessionVars, now, frameVars, iter,
                   seen, report, out>>

\* line 51: return None
CamRetNone ==
    /\ ipc = "retnone"
    /\ Return(None)
    /\ lastOp' = "cam_retnone"
    /\ UNCHANGED <<sessionVars, now, frameVars, iter, seen, report>>

\* positions of initialize_camera inside a try block with a bare except
InTry == {"open", "check", "config", "release"}

\* KeyboardInterrupt raised while initialize_camera runs: inside a try block the
\* bare except (lines 39, 48) catches it like any failure of the candidate;
\* outside (lines 21-28, 51) it leaves initialize_camera and reaches main, where
\* line 143 is outside main's try and line 161 is inside it
CamInterrupt ==
    /\ ipc # "idle"
    /\ IF ipc \in InTry
       THEN /\ failed' = failed \cup {icand}
            /\ ipc' = AfterFail(icand).ipc
            /\ icand' = AfterFail(icand).icand
            /\ lastOp' = "sigint"
            /\ UNCHANGED <<pc, icap, firstOpen, dropped>>
       ELSE /\ ipc' = "idle"
            /\ icand' = 0
            /\ icap' = None
            /\ failed' = {}
            /\ firstOpen' = 0
            /\ dropped' = dropped \cup Unreleased(icap)
            /\ pc' = IF pc = "init_call" THEN "crashed" ELSE "fin_release"
            /\ lastOp' = "sigint"
    /\ UNCHANGED <<cap, sessionVars, now, frameVars, iter, seen, report, out>>

\* ------------------------------------------------------------ main loop
\* positions of main inside `while True` (lines 156-186)
Running == {"read", "relcap", "reinit", "an_call", "an_stats", "an_count",
            "an_hist", "an_draw", "show", "key"}

\* lines 157-167: cap.read(); on success the frame is mirrored and handed to
\* analyze_frame, on failure the loop goes to release and re-acquire
Read ==
    /\ pc = "read"
    /\ \E ok \in BOOLEAN :
          IF ok
          THEN /\ pc' = "an_call"
               /\ frame' = [NoFrame EXCEPT !.mirrored = TRUE]
               /\ iter' = NoIter
          ELSE /\ pc' = "relcap"
               /\ frame' = NoFrame
               /\ iter' = [NoIter EXCEPT !.readFailed = TRUE]
    /\ results' = <<>>
    /\ ret' = "unset"
    /\ lastOp' = "read"
    /\ UNCHANGED <<camVars, cap, dropped, sessionVars, now, seen, report, out>>

\* lines 159-161: cap.release(), then the call of initialize_camera
RelCap ==
    /\ pc = "relcap"
    /\ cap' = release(cap)
    /\ pc' = "reinit"
    /\ ipc' = "start"
    /\ iter' = [iter EXCEPT !.inits = @ + 1]
    /\ lastOp' = "relcap"
    /\ UNCHANGED <<icand, icap, failed, firstOpen, dropped, sessionVars, now,
                   frameVars, seen, report, out>>

\* ---------------------------------------------------------- analyze_frame
\* the bug of having no try/except around the analysis: the failure leaves
\* analyze_frame and ends the loop
Caught_propagates ==
    /\ ret' = ret
    /\ pc' = "fin_release"

\* what the `except Exception` of lines 91-94 leaves: (frame, None) and the
\* loop goes on to the display
Caught ==
    /\ ret' = "None"
    /\ pc' = "show"

\* the bug of returning the (empty) results instead of None
NoDetections_returnsList ==
    /\ ret' = "results"
    /\ pc' = "show"

\* line 94 reached with nothing raised: return frame, None
NoDetections ==
    /\ ret' = "None"
    /\ pc' = "show"

\* line 64: isinstance(results, list) and len(results) > 0
HasDetections(kind, r) == kind = "list" /\ Len(r) > 0

\* lines 56-64: DeepFace.analyze raises, returns something that is no list, or
\* returns a list; an empty or non-list result falls through to line 94
AnalyzeCall ==
    /\ pc = "an_call"
    /\ \E kind \in {"raise", "other", "list"}, r \in ResultLists :
          IF kind = "raise"
          THEN /\ Caught
               /\ results' = <<>>
               /\ lastOp' = "an_raise"
               /\ UNCHANGED seen
          ELSE IF ~HasDetections(kind, r)
          THEN /\ NoDetections
               /\ results' = <<>>
               /\ lastOp' = IF kind = "other" THEN "an_other" ELSE "an_empty"
               /\ UNCHANGED seen
          ELSE /\ frame_count < MaxFrames
               /\ results' = r
               /\ seen' = Append(seen, r[1].emotion)
               /\ pc' = "an_stats"
               /\ lastOp' = "an_faces"
               /\ UNCHANGED ret
    /\ iter' = [iter EXCEPT !.analyzed = TRUE]
    /\ UNCHANGED <<camVars, cap, dropped, sessionVars, now, frame, report, out>>

\* the bug of reading the last detection instead of the first
dominant_emotion_last(r) == r[Len(r)].emotion

\* line 65-66: result = results[0]; dominant_emotion = result['dominant_emotion']
dominant_emotion(r) == r[1].emotion

\* line 70: self.emotion_stats[dominant_emotion] += 1
Incr(stats, l) == [k \in DOMAIN stats \cup {l} |->
                      IF k = l THEN Count(stats, l) + 1 ELSE stats[k]]

AnStats ==
    /\ pc = "an_stats"
    /\ emotion_stats' = Incr(emotion_stats, dominant_emotion(results))
    /\ pc' = "an_count"
    /\ lastOp' = "an_stats"
    /\ UNCHANGED <<camVars, cap, dropped, frame_count, start_time, emotion_history,
                   now, frameVars, iter, seen, report, out>>

\* line 71: self.frame_count += 1
AnCount ==
    /\ pc = "an_count"
    /\ frame_count' = frame_count + 1
    /\ pc' = "an_hist"
    /\ lastOp' = "an_count"
    /\ UNCHANGED <<camVars, cap, dropped, emotion_stats, start_time, emotion_history,
                   now, frameVars, iter, seen, report, out>>

\* lines 72-76: self.emotion_history.append({...})
AnHist ==
    /\ pc = "an_hist"
    /\ emotion_history' = Append(emotion_history, dominant_emotion(results))
    /\ pc' = "an_draw"
    /\ lastOp' = "an_hist"
    /\ UNCHANGED <<camVars, cap, dropped, emotion_stats, frame_count, start_time,
                   now, frameVars, iter, seen, report, out>>

\* faces of r the loop of lines 79-87 annotates: those with a 'region'
WithRegion(r) == {i \in DOMAIN r : r[i].region}

\* lines 79-89: annotate every face that has a region and return
\* (frame, results); a drawing call that throws after k faces were annotated
\* is caught at line 91 and (frame, None) is returned
AnDraw ==
    /\ pc = "an_draw"
    /\ \E k \in 0..Cardinality(WithRegion(results)) :
          /\ frame' = [frame EXCEPT !.drawn = k]
          /\ IF k = Cardinality(WithRegion(results))
             THEN /\ ret' = "results"
                  /\ pc' = "show"
                  /\ lastOp' = "an_return"
             ELSE /\ Caught
                  /\ lastOp' = "an_draw_raise"
    /\ results' = <<>>
    /\ UNCHANGED <<camVars, cap, dropped, sessionVars, now, iter, seen, report, out>>

\* lines 173-179: overlay the frame counter if any frame was counted, imshow
Show ==
    /\ pc = "show"
    /\ frame' = [frame EXCEPT !.overlay = (frame_count > 0)]
    /\ iter' = [iter EXCEPT !.shown = TRUE]
    /\ pc' = "key"
    /\ lastOp' = "show"
    /\ UNCHANGED <<camVars, cap, dropped, sessionVars, now, results, ret, seen, report, out>>

\* the bug of clearing the counters in place and forgetting the history
Reset_keepsHistory(t) ==
    /\ now' = t
    /\ emotion_stats' = NewStats
    /\ frame_count' = NewFrameCount
    /\ start_time' = NewStart(t)
    /\ emotion_history' = emotion_history

\* line 185: analyzer = FixedCameraEmotionAnalyzer(), constructed at clock
\* value t (lines 13-16)
Reset(t) ==
    /\ now' = t
    /\ emotion_stats' = NewStats
    /\ frame_count' = NewFrameCount
    /\ start_time' = NewStart(t)
    /\ emotion_history' = NewHistory

\* lines 181-186: waitKey returns a key of K; 'q' leaves the loop, 'r' replaces
\* the analyzer by a new one, any other key or none goes on with the next frame
KeyPress(K) ==
    /\ pc = "key"
    /\ \E k \in K :
          /\ lastOp' = k
          /\ IF k = "r"
             THEN /\ \E t \in now..MaxTime : Reset(t)
                  /\ seen' = <<>>
                  /\ pc' = "read"
             ELSE /\ pc' = IF k = "q" THEN "fin_release" ELSE "read"
                  /\ UNCHANGED <<sessionVars, now, seen>>
    /\ UNCHANGED <<camVars, cap, dropped, frameVars, iter, report, out>>

\* the user presses any key or none
Key == KeyPress({"q", "r", "other"})

\* the user holds 'q' down: every poll of the keyboard returns it
KeyQ == KeyPress({"q"})

\* KeyboardInterrupt raised in the loop outside initialize_camera: nothing on
\* the way catches it (line 91 catches Exception only) before line 188; an
\* analyze_frame it interrupts never returns, so ret stays unset
Interrupt ==
    /\ pc \in Running \ {"reinit"}
    /\ pc' = "fin_release"
    /\ results' = <<>>
    /\ lastOp' = "sigint"
    /\ UNCHANGED <<camVars, cap, dropped, sessionVars, now, ret, frame, iter, seen,
                   report, out>>

\* ------------------------------------------------------- generate_report
\* the bug of leaving out the zero-frame check of lines 97-98
generate_report_noguard(t, chartOk) ==
    LET keys == DOMAIN emotion_stats
    IN  IF keys # {} /\ frame_count = 0
        THEN [NoReport EXCEPT !.text = "ZeroDivisionError", !.divisions = 1]
        ELSE [text |-> IF chartOk THEN "report" ELSE "ChartError",
              chart |-> chartOk,
              pct |-> [l \in keys |-> emotion_stats[l] * 100],
              total |-> frame_count,
              divisions |-> Cardinality(keys),
              charts |-> 1,
              duration |-> t - start_time]

\* lines 96-119 at clock value t; chartOk: _create_chart returns (it is not
\* guarded, so a failure of it leaves generate_report as an exception)
\* percentages are kept exact: pct[l] is the numerator 100 * count of the
\* quotient whose denominator is total (line 104)
generate_report(t, chartOk) ==
    IF frame_count = 0
    THEN [NoReport EXCEPT !.text = "nodata"]
    ELSE [text |-> IF chartOk THEN "report" ELSE "ChartError",
          chart |-> chartOk,
          pct |-> [l \in DOMAIN emotion_stats |-> emotion_stats[l] * 100],
          total |-> frame_count,
          divisions |-> Cardinality(DOMAIN emotion_stats),
          charts |-> 1,
          duration |-> t - start_time]

Raised(r) == r.text \in {"ZeroDivisionError", "ChartError"}

\* ------------------------------------------------------------- finally
\* lines 191-192: if cap: cap.release()
FinRelease ==
    /\ pc = "fin_release"
    /\ cap' = IF cap.valid THEN release(cap) ELSE cap
    /\ out' = IF cap.valid THEN Append(out, "release") ELSE out
    /\ pc' = "fin_destroy"
    /\ lastOp' = "fin_release"
    /\ UNCHANGED <<camVars, dropped, sessionVars, now, frameVars, iter, seen, report>>

\* line 193: cv2.destroyAllWindows()
FinDestroy ==
    /\ pc = "fin_destroy"
    /\ out' = Append(out, "destroy")
    /\ pc' = "fin_report"
    /\ lastOp' = "fin_destroy"
    /\ UNCHANGED <<camVars, cap, dropped, sessionVars, now, frameVars, iter, seen, report>>

\* line 196: report, chart_base64 = analyzer.generate_report()
FinReport ==
    /\ pc = "fin_report"
    /\ \E t \in now..MaxTime, chartOk \in BOOLEAN :
          /\ now' = t
          /\ report' = generate_report(t, chartOk)
          /\ pc' = IF Raised(report') THEN "crashed" ELSE "fin_print"
          /\ out' = IF Raised(report') THEN out ELSE Append(out, "report")
    /\ lastOp' = "fin_report"
    /\ UNCHANGED <<camVars, cap, dropped, sessionVars, frameVars, iter, seen>>

\* lines 198-200: print the report
FinPrint ==
    /\ pc = "fin_print"
    /\ out' = Append(out, "print")
    /\ pc' = "fin_write"
    /\ lastOp' = "fin_print"
    /\ UNCHANGED <<camVars, cap, dropped, sessionVars, now, frameVars, iter, seen, report>>

\* the bug of writing the file without the test of line 202
FinWrite_always ==
    /\ pc = "fin_write"
    /\ out' = Append(out, "write")
    /\ pc' = "done"
    /\ lastOp' = "fin_write"
    /\ UNCHANGED <<camVars, cap, dropped, sessionVars, now, frameVars, iter, seen, report>>

\* lines 202-205: if chart_base64: write emotion_report.png
FinWrite ==
    /\ pc = "fin_write"
    /\ out' = IF report.chart THEN Append(out, "write") ELSE out
    /\ pc' = "done"
    /\ lastOp' = "fin_write"
    /\ UNCHANGED <<camVars, cap, dropped, sessionVars, now, frameVars, iter, seen, report>>

Next ==
    \/ CamStart
    \/ CamOpen
    \/ CamCheck
    \/ CamConfig
    \/ CamRelease
    \/ CamRetNone
    \/ CamInterrupt
    \/ Read
    \/ RelCap
    \/ AnalyzeCall
    \/ AnStats
    \/ AnCount
    \/ AnHist
    \/ AnDraw
    \/ Show
    \/ Key
    \/ Interrupt
    \/ FinRelease
    \/ FinDestroy
    \/ FinReport
    \/ FinPrint
    \/ FinWrite

Spec == Init /\ [][Next]_vars

\* the program with 'q' held down from the start and no SIGINT: one thread in
\* which every blocking call returns, so it always takes its next step
NextQ ==
    \/ CamStart
    \/ CamOpen
    \/ CamCheck
    \/ CamConfig
    \/ CamRelease
    \/ CamRetNone
    \/ Read
    \/ RelCap
    \/ AnalyzeCall
    \/ AnStats
    \/ AnCount
    \/ AnHist
    \/ AnDraw
    \/ Show
    \/ KeyQ
    \/ FinRelease
    \/ FinDestroy
    \/ FinReport
    \/ FinPrint
    \/ FinWrite

SpecQ == Init /\ [][NextQ]_vars /\ WF_vars(NextQ)

\* ================================================================ claims
\* every analyze_frame call of this session has returned
NoneInFlight == ~(iter.analyzed /\ ret = "unset")

\* C1: after any sequence of frames on which the classifier returned at least
\* one detection, with no reset in between, emotion_stats[L] is the number of
\* frames whose first detection had emotion L and frame_count is the number of
\* those frames, a frame with several faces being counted once.
C1_CountsMatchFrames ==
    NoneInFlight =>
        /\ frame_count = Len(seen)
        /\ \A l \in Labels : Count(emotion_stats, l) = Occurrences(seen, l)

\* the frames [happy, happy, sad], the last with two annotated faces
C1_Witness ==
    /\ pc = "show"
    /\ lastOp = "an_return"
    /\ frame.drawn = 2
    /\ seen = <<"happy", "happy", "sad">>
    /\ frame_count = 3
    /\ emotion_stats = ("happy" :> 2) @@ ("sad" :> 1)

\* C2: whenever generate_report runs on a session with frame_count > 0, on any
\* termination path, the counts of emotion_stats sum to frame_count, which is
\* the length of emotion_history, so the reported percentages sum to 100.
C2_PercentagesSumTo100 ==
    /\ (pc = "fin_report" /\ frame_count > 0) =>
          /\ Total(emotion_stats) = frame_count
          /\ Len(emotion_history) = frame_count
    /\ report.text = "report" => Total(report.pct) = 100 * report.total

\* C3: generate_report on a session whose frame_count is 0 returns the "no
\* data" message and no chart, divides nothing, renders no chart and raises
\* nothing.
C3_ZeroFramesNoData ==
    (lastOp = "fin_report" /\ frame_count = 0) =>
        /\ report.text = "nodata"
        /\ ~report.chart
        /\ report.divisions = 0
        /\ report.charts = 0
        /\ pc = "fin_print"

C3_Witness ==
    /\ lastOp = "fin_report"
    /\ frame_count = 0
    /\ report.text = "nodata"
    /\ pc = "fin_print"

\* C4: pressing 'r' in the loop, whatever the session held, gives a session
\* with frame_count 0, no counts, no history and start time now; the loop goes
\* on with the next read on the same open camera handle, which is neither
\* released nor acquired again.
C4_ResetEmptiesSession ==
    [][(pc = "key" /\ lastOp' = "r") =>
          /\ frame_count' = 0
          /\ DOMAIN emotion_stats' = {}
          /\ Len(emotion_history') = 0
          /\ start_time' = now'
          /\ pc' = "read"
          /\ cap' = cap
          /\ cap.opened /\ ~cap.released
          /\ ipc' = "idle"
          /\ iter' = iter
          /\ dropped' = dropped]_vars

\* 'r' was pressed on a frame shown with the counter overlay (frames counted)
C4_Witness ==
    /\ lastOp = "r"
    /\ pc = "read"
    /\ frame.overlay
    /\ frame_count = 0
    /\ DOMAIN emotion_stats = {}
    /\ cap.opened /\ ~cap.released

\* C5: if the classifier call fails on a frame, analyze_frame returns the
\* frame as it was with None; emotion_stats, frame_count and emotion_history
\* are unchanged, and the loop goes on to display the frame.
C5_ClassifierFailureSkipsFrame ==
    [][(pc = "an_call" /\ lastOp' = "an_raise") =>
          /\ UNCHANGED sessionVars
          /\ ret' = "None"
          /\ frame' = frame
          /\ frame'.drawn = 0
          /\ pc' = "show"]_vars

C5_Witness ==
    /\ lastOp = "an_raise"
    /\ pc = "show"
    /\ ret = "None"
    /\ frame_count > 0

\* C6: a frame on which the classifier returns zero detections leaves
\* emotion_stats, frame_count and emotion_history unchanged, and analyze_frame
\* returns the frame with nothing drawn and None.
C6_NoDetectionsNoEffect ==
    [][(pc = "an_call" /\ lastOp' = "an_empty") =>
          /\ UNCHANGED sessionVars
          /\ ret' = "None"
          /\ frame' = frame
          /\ frame'.drawn = 0]_vars

C6_Witness ==
    /\ lastOp = "an_empty"
    /\ pc = "show"
    /\ ret = "None"
    /\ frame.drawn = 0
    /\ frame_count > 0

\* some count of the session went down in this step
Emptied ==
    \/ frame_count' < frame_count
    \/ Len(emotion_history') < Len(emotion_history)
    \/ \E l \in Labels : Count(emotion_stats', l) < Count(emotion_stats, l)

\* C7: a failed read followed by a successful re-acquisition leaves
\* emotion_stats, frame_count, emotion_history and start_time as they were; no
\* frame is analyzed or displayed in that iteration and the loop goes on with
\* the next read. Only the 'r' key empties the statistics.
C7_ReacquireKeepsSession ==
    [][/\ (pc = "read" /\ pc' = "relcap") => UNCHANGED sessionVars
       /\ (pc \in {"relcap", "reinit"}) =>
             /\ UNCHANGED sessionVars
             /\ ~iter'.analyzed /\ ~iter'.shown
             /\ pc' \in {"relcap", "reinit", "read", "fin_release"}
             /\ (ipc # "idle" /\ ipc' = "idle" /\ lastOp' # "sigint" /\ cap'.valid) =>
                   /\ pc' = "read"
                   /\ cap'.opened /\ ~cap'.released
       /\ Emptied => (pc = "key" /\ lastOp' = "r")]_vars

\* back at the read after a failed one, with frames counted before it
C7_Witness ==
    /\ lastOp = "cam_config"
    /\ pc = "read"
    /\ iter.readFailed
    /\ iter.inits = 1
    /\ frame_count > 0
    /\ cap.opened /\ ~cap.released

\* C8: a user interrupt delivered at any point of the loop, a mid-session
\* re-acquisition included, ends the loop like 'q': the session goes to its
\* termination steps (release, close, report).
C8_InterruptTerminates ==
    [][(pc \in Running /\ lastOp' = "sigint") => pc' = "fin_release"]_vars

\* C9: on every path by which the program ends after a camera was acquired,
\* every handle the program opened has been released.
C9_AllHandlesReleased ==
    (pc = "done" /\ lastOp = "fin_write") =>
        /\ cap.valid => cap.released
        /\ \A d \in dropped : ~d.opened

\* initialize_camera returns to main in this step
Returns == ipc # "idle" /\ ipc' = "idle" /\ lastOp' # "sigint"

\* candidates are taken in list order, the bare attempt last
InOrder == (ipc' # "idle" /\ icand' # icand) => icand' = icand + 1

\* C10 as claimed: candidates are tried in the fixed order; the handle
\* returned is that of the first candidate whose handle reported open, and
\* None is returned exactly if every candidate threw or did not open.
C10_FirstOpenWins ==
    [][/\ InOrder
       /\ Returns =>
             /\ cap'.valid => (cap'.opened /\ cap'.backend = firstOpen)
             /\ ~cap'.valid <=> failed = Candidates]_vars

\* C10 as amended: candidates are tried in the fixed order; the handle returned
\* is that of the first candidate whose handle reported open and on which no
\* step up to the return raised (every earlier candidate threw at some step or
\* did not open, and none after it was attempted); None is returned exactly if
\* every candidate threw at some step or did not open.
C10_FirstGoodCandidateWins ==
    [][/\ InOrder
       /\ Returns =>
             /\ cap'.valid =>
                   /\ cap'.opened
                   /\ cap'.backend = icand
                   /\ failed = 1..(icand - 1)
             /\ ~cap'.valid <=> failed = Candidates]_vars

\* the first call returned the third backend's handle after an earlier
\* candidate's handle had reported open and was abandoned
C10_Witness ==
    /\ lastOp = "cam_config"
    /\ ipc = "idle"
    /\ pc = "read"
    /\ iter.inits = 0
    /\ cap.valid /\ cap.opened
    /\ cap.backend = 3
    /\ [opened |-> TRUE] \in dropped

\* C11: every handle initialize_camera returns, whichever candidate produced
\* it, has been configured with width 640, height 480 and frame rate 30.
C11_ReturnedHandleConfigured ==
    cap.valid =>
        /\ cap.width = FRAME_WIDTH
        /\ cap.height = FRAME_HEIGHT
        /\ cap.fps = FPS

\* initialize_camera leaves the candidate it is at: for the next one, for
\* `return None`, or by returning None
LeavesCandidate ==
    /\ ipc \in InTry
    /\ \/ icand' # icand
       \/ ipc' = "retnone"

\* C13: inside initialize_camera, every candidate handle that was created and
\* is not the one returned has been released before the next candidate is
\* tried or None is returned.
C13_FailedCandidateReleased ==
    [][(LeavesCandidate /\ ~(Returns /\ cap'.valid)
          /\ icap.valid /\ icap.backend = icand) => icap'.released]_vars

Range(q) == {q[i] : i \in DOMAIN q}

\* the positions of main's finally block
Terminating == {"fin_release", "fin_destroy", "fin_report", "fin_print", "fin_write"}

\* the first acquisition returns None: error message, end, no report
InitialFailure ==
    (pc = "init_call" /\ Returns /\ ~cap'.valid) =>
        /\ pc' = "done"
        /\ out' = <<"error">>
        /\ report' = NoReport

\* a re-acquisition returns None: the session terminates with what it counted
ReacquireFailure ==
    (pc = "reinit" /\ Returns /\ ~cap'.valid) =>
        /\ iter.readFailed
        /\ pc' = "fin_release"
        /\ UNCHANGED sessionVars

\* the program has ended after a failed re-acquisition
EndedAfterReacquireFailure ==
    /\ pc' \in {"done", "crashed"}
    /\ lastOp' \in {"fin_write", "fin_report"}
    /\ ~cap'.valid

\* C12 as claimed: a failed first acquisition ends the program with an error
\* message and no report; a failed re-acquisition terminates the session and the
\* report is generated and printed from the statistics accumulated so far;
\* initialize_camera is called at most once per loop iteration.
C12_AcquisitionFailurePaths ==
    [][/\ InitialFailure
       /\ ReacquireFailure
       /\ EndedAfterReacquireFailure =>
             /\ "report" \in Range(out')
             /\ "print" \in Range(out')
       /\ iter'.inits <= 1]_vars

\* r is what lines 97-119 make of the session as it is
ReportOfSession(r) ==
    IF frame_count = 0 THEN r.text = "nodata"
    ELSE /\ r.text = "report"
         /\ r.total = frame_count
         /\ DOMAIN r.pct = DOMAIN emotion_stats
         /\ \A l \in DOMAIN r.pct : r.pct[l] = 100 * emotion_stats[l]

\* C12 as amended: a failed first acquisition ends the program with an error
\* message and no report; a failed re-acquisition terminates the session,
\* nothing changes the statistics any more, and generate_report is run on
\* them: its report is printed, unless chart rendering raises (frame_count > 0
\* only), which ends the program with nothing printed; initialize_camera is
\* called at most once per loop iteration.
C12_AcquisitionFailureReports ==
    [][/\ InitialFailure
       /\ ReacquireFailure
       /\ pc \in Terminating => UNCHANGED sessionVars
       /\ (pc = "fin_report" /\ pc' # pc) =>
             \/ /\ pc' = "fin_print"
                /\ ReportOfSession(report')
             \/ /\ pc' = "crashed"
                /\ frame_count > 0
                /\ report'.text = "ChartError"
                /\ out' = out
       /\ (pc = "fin_print" /\ pc' # pc) =>
             /\ pc' = "fin_write"
             /\ out' = Append(out, "print")
       /\ EndedAfterReacquireFailure =>
             \/ "print" \in Range(out')
             \/ pc' = "crashed" /\ report'.text = "ChartError"
       /\ iter'.inits <= 1]_vars

\* the program ended after a failed re-acquisition with frames counted before
C12_Witness ==
    /\ pc = "done"
    /\ lastOp = "fin_write"
    /\ ~cap.valid
    /\ iter.readFailed /\ iter.inits = 1
    /\ frame_count > 0
    /\ report.total = frame_count
    /\ "print" \in Range(out)

\* C16: analyze_frame returns None for the detections exactly if it left
\* emotion_stats, frame_count and emotion_history unchanged: a call that
\* returns before line 70 changed nothing and returns None, a call that ran
\* lines 70-72 returns the detections.
C16_AllOrNothing ==
    [][/\ (pc = "an_call" /\ pc' = "show") =>
             /\ ret' = "None"
             /\ UNCHANGED sessionVars
       /\ (pc = "an_draw" /\ pc' = "show") =>
             /\ Len(emotion_history) = frame_count /\ frame_count > 0
             /\ ret' = "results"]_vars

\* the steps of main's finally block, in the order of lines 191-205
Steps == <<"release", "destroy", "report", "print", "write">>
Pos(x) == CHOOSE i \in DOMAIN Steps : Steps[i] = x

\* the termination steps taken so far were taken in the order of Steps
Ordered(o) ==
    /\ Range(o) \subseteq Range(Steps)
    /\ \A i, j \in DOMAIN o : i < j => Pos(o[i]) < Pos(o[j])

\* the program ended in or after main's finally block
EndedInFinally ==
    /\ pc \in {"done", "crashed"}
    /\ lastOp \in {"fin_write", "fin_report"}

\* C14 as claimed: on termination the camera is released, the display closed,
\* the report generated, the report printed and the chart file written, in this
\* order, and the file is written exactly if the session that is current at
\* termination has frame_count > 0.
C14_TerminationOrder ==
    /\ "error" \notin Range(out) => Ordered(out)
    /\ pc \in {"fin_destroy", "fin_report", "fin_print", "fin_write"} =>
          (cap.valid => cap.released)
    /\ EndedInFinally => ("write" \in Range(out) <=> frame_count > 0)

\* C14 as amended: the same order; the file is written exactly if the session
\* current at termination has frame_count > 0 and chart rendering returned;
\* when rendering raises (frame_count > 0 only) the program ends after the
\* display was closed, with no report printed and no file written.
C14_TerminationOrderChart ==
    /\ "error" \notin Range(out) => Ordered(out)
    /\ pc \in {"fin_destroy", "fin_report", "fin_print", "fin_write"} =>
          (cap.valid => cap.released)
    /\ (EndedInFinally /\ pc = "done") =>
          /\ {"destroy", "report", "print"} \subseteq Range(out)
          /\ "write" \in Range(out) <=> frame_count > 0
    /\ (EndedInFinally /\ pc = "crashed") =>
          /\ frame_count > 0
          /\ report.text = "ChartError"
          /\ "destroy" \in Range(out)
          /\ Range(out) \cap {"report", "print", "write"} = {}

\* the program ended right after an 'r' that emptied a session with frames in
\* it: the frame last shown has the counter overlay, no file was written
C14_Witness ==
    /\ pc = "done"
    /\ lastOp = "fin_write"
    /\ frame.overlay
    /\ frame_count = 0
    /\ out = <<"release", "destroy", "report", "print">>

\* the session has left the loop (or never entered it)
Terminated == pc \notin Running \cup {"init_call"}

\* C15: the keyboard is polled in every iteration of the loop, so with 'q'
\* pressed the session eventually terminates, whatever the camera does.
C15_QuitEventuallyTerminates == <>Terminated

====
